---------------------------- MODULE Spec2Model ----------------------------
(***************************************************************************)
(* A model of letkf_forecasting.py: the flux-form advection integrator     *)
(* (space_deriv_4, time_deriv_3), the parallax geometry (parallax_shift,   *)
(* to_lat_lon, get_flat_correct) and the driver loop simulation_parallax.  *)
(*                                                                         *)
(* The specifications of the module:                                       *)
(*   SpecAdvect    applies space_deriv_4 / time_deriv_3 to bounded inputs  *)
(*   SpecParallax  applies parallax_shift / get_flat_correct               *)
(*   Spec          runs the driver loop of simulation_parallax             *)
(*   SpecNearest   applies to_nearest_indices                              *)
(*   SpecAssim     applies assimilate_parallax                             *)
(*   SpecEnsemble  applies ensemble_creator                                *)
(*   SpecNoise     runs the noise mask through one coarse interval         *)
(***************************************************************************)
EXTENDS Integers, Sequences, FiniteSets, TLC

VARIABLES
    \* ---- SpecAdvect: one application of space_deriv_4 / time_deriv_3
    adv_pc,      \* position in time_deriv_3: "in" | "k1" | "k2" | "k3" | "out"
    adv_q,       \* the field q, rows x cols
    adv_u,       \* the wind u, rows x (cols + 1)  (staggered in x)
    adv_v,       \* the wind v, (rows + 1) x cols  (staggered in y)
    adv_dt,      \* the time increment dt
    adv_dx,      \* cell spacing in x
    adv_dy,      \* cell spacing in y
    adv_k,       \* k of time_deriv_3
    adv_qout     \* qout of time_deriv_3

VARIABLES
    \* ---- SpecParallax: one call of get_flat_correct for one sensor
    par_pc,      \* "in" | "shift" | "latlon" | "flat" | "error"
    par_in,      \* the arguments of get_flat_correct, the solar position, a sensor cell
    par_shift,   \* <<x_correct, y_correct>> of parallax_shift
    par_latlon,  \* <<lat_correct, lon_correct>> of to_lat_lon
    par_cells,   \* <<west_east_correct, south_north_correct>>
    par_flat     \* flat_correct

VARIABLES
    \* ---- Spec: the driver simulation_parallax
    cfg,                  \* the arguments and the values fixed before the loop
    pc,                   \* "loop" | "fine" | "point" | "done" | "aborted"
    error,                \* the exception that ended the run, or "none"
    time_index,           \* loop variable of the coarse loop (line 495)
    sim_n,                \* loop variable n of the fine loop (line 506)
    sensor_time,          \* time of the current fine tick, in 5-minute ticks
    U, V,                 \* the wind of the coarse tick (the values of its cells)
    T_steps,              \* number of advection sub-steps per fine tick
    sim_dt,               \* dt = (5*60)/T_steps
    advection_number,     \* fine ticks in the coarse interval
    sim_q,                \* the deterministic field: its frame and its advections
    noise,                \* the noise mask: the stage it is in
    ensemble,             \* wind-bias rows per member, and the stage of the field rows
    analysis, background, advected,   \* the trajectories
    flat_correct,         \* the parallax offset of the fine tick
    this_flat_sensor_loc, \* flat_sensor_loc + flat_correct
    point_assim           \* the last call of assimilate_parallax: mode and rows

VARIABLES
    \* ---- SpecNearest: one call of to_nearest_indices
    near_pc,     \* "in" | "loop" | "out"
    near_array,  \* the sorted array, indices 0..len-1
    near_values, \* the query values, indices 0..size-1
    near_idx,    \* idx
    near_i       \* loop variable i (line 146)

VARIABLES
    \* ---- SpecAssim: one call of assimilate_parallax
    asm_pc,      \* position in the call
    asm_in,      \* the arguments
    asm_eig,     \* eig_value, eig_vector of np.linalg.eigh
    asm_W,       \* P_tilde, W_a, w_a_bar
    asm_out      \* the returned ensemble

VARIABLES
    \* ---- SpecEnsemble: one call of ensemble_creator
    ens_pc,      \* position in the call
    ens_in,      \* the arguments
    ens_ensemble \* the local ensemble

VARIABLES
    \* ---- SpecNoise: the noise mask of one coarse interval
    nz_pc,       \* position in the interval
    nz_in,       \* domain_shape, advection_number, U, V, dt, dx, dy
    nz_tick,     \* advections of the mask so far in the interval
    nz_init,     \* noise_init
    nz_noise     \* noise

advVars == <<adv_pc, adv_q, adv_u, adv_v, adv_dt, adv_dx, adv_dy, adv_k, adv_qout>>

parVars == <<par_pc, par_in, par_shift, par_latlon, par_cells, par_flat>>

drvVars == <<cfg, pc, error, time_index, sim_n, sensor_time, U, V, T_steps, sim_dt,
             advection_number, sim_q, noise, ensemble, analysis, background, advected,
             flat_correct, this_flat_sensor_loc, point_assim>>

nearVars == <<near_pc, near_array, near_values, near_idx, near_i>>

asmVars == <<asm_pc, asm_in, asm_eig, asm_W, asm_out>>

ensVars == <<ens_pc, ens_in, ens_ensemble>>

nzVars == <<nz_pc, nz_in, nz_tick, nz_init, nz_noise>>

\* the variables of the library functions applied on their own
libVars == <<nearVars, asmVars, ensVars, nzVars>>

vars == <<advVars, parVars, drvVars, libVars>>

(***************************************************************************)
(* Floating point values.  A value is a pair <<n, d>> with d >= 0, in      *)
(* lowest terms: n/d for d > 0, and the IEEE specials for d = 0:           *)
(* <<1,0>> = +inf, <<-1,0>> = -inf, <<0,0>> = nan.  Finite arithmetic is   *)
(* exact (rounding error is not modelled); the specials follow numpy:      *)
(* x/0 = +-inf, 0/0 = nan, 0*inf = nan, inf - inf = nan.                   *)
(***************************************************************************)
Abs(x) == IF x < 0 THEN -x ELSE x

Sign(x) == IF x < 0 THEN -1 ELSE IF x > 0 THEN 1 ELSE 0

RECURSIVE GCD(_, _)
GCD(m, n) == IF n = 0 THEN m ELSE GCD(n, m % n)

Norm(num, den) ==
    IF den = 0 THEN <<Sign(num), 0>>
    ELSE LET g == GCD(Abs(num), den)
         IN  <<Sign(num) * (Abs(num) \div g), den \div g>>

R(i) == <<i, 1>>

Zero == R(0)

NaN == <<0, 0>>

Inf == <<1, 0>>

IsFinite(x) == x[2] > 0

IsNaN(x) == x = NaN

RNeg(x) == <<-x[1], x[2]>>

RAdd(x, y) ==
    IF x[2] = 0 /\ y[2] = 0 THEN (IF x = y THEN x ELSE NaN)
    ELSE IF x[2] = 0 THEN x
    ELSE IF y[2] = 0 THEN y
    ELSE LET g == GCD(x[2], y[2])
         IN  Norm(x[1] * (y[2] \div g) + y[1] * (x[2] \div g), (x[2] \div g) * y[2])

RSub(x, y) == RAdd(x, RNeg(y))

RMul(x, y) ==
    IF x[2] = 0 \/ y[2] = 0 THEN <<Sign(x[1]) * Sign(y[1]), 0>>
    ELSE LET g1 == GCD(Abs(x[1]), y[2])
             g2 == GCD(Abs(y[1]), x[2])
         IN  Norm((x[1] \div g1) * (y[1] \div g2), (x[2] \div g2) * (y[2] \div g1))

\* 1/y: 1/0 = +inf (the sign of a zero is not modelled), 1/inf = 0, 1/nan = nan
RInv(y) ==
    IF y[2] = 0 THEN (IF y[1] = 0 THEN NaN ELSE <<0, 1>>)
    ELSE IF y[1] = 0 THEN <<1, 0>>
    ELSE IF y[1] < 0 THEN <<-y[2], -y[1]>>
    ELSE <<y[2], y[1]>>

RDiv(x, y) == RMul(x, RInv(y))

\* x <= y for finite x, y (any comparison with nan is false)
RLe(x, y) == IsFinite(x) /\ IsFinite(y) /\ x[1] * y[2] <= y[1] * x[2]

\* ndarray.clip(max=0) and ndarray.clip(min=0) on one element
ClipMax0(x) == IF RLe(Zero, x) THEN Zero ELSE x

ClipMin0(x) == IF RLe(x, Zero) THEN Zero ELSE x

(***************************************************************************)
(* Arrays are functions on 0-based index ranges, as numpy's.               *)
(***************************************************************************)
NRows(q) == Cardinality(DOMAIN q)

NCols(q) == Cardinality(DOMAIN q[0])

(***************************************************************************)
(* space_deriv_4: fourth-order flux difference in the interior,            *)
(* first-order upwind product rule in the two outermost cells of each edge *)
(***************************************************************************)
\* a faulty F_x: the flux without its velocity factor
F_x_noU(q, u, r, j) ==
    RMul(RDiv(R(1), R(12)),
         RSub(RMul(R(7), RAdd(q[r][j], q[r][j - 1])),
              RAdd(q[r][j + 1], q[r][j - 2])))

\* F_x[:, 2:-2]: the x-flux at face j (between cells j-1 and j), 2 <= j <= cols-2
F_x(q, u, r, j) ==
    RMul(RDiv(u[r][j], R(12)),
         RSub(RMul(R(7), RAdd(q[r][j], q[r][j - 1])),
              RAdd(q[r][j + 1], q[r][j - 2])))

\* F_y[2:-2, :]: the y-flux at face i (between cells i-1 and i), 2 <= i <= rows-2
F_y(q, v, i, c) ==
    RMul(RDiv(v[i][c], R(12)),
         RSub(RMul(R(7), RAdd(q[i][c], q[i - 1][c])),
              RAdd(q[i + 1][c], q[i - 2][c])))

\* qout[:, 2:-2] -= (F_x[:, 3:-2] - F_x[:, 2:-3])/dx
MiddleX(q, u, dx, r, c) ==
    RNeg(RDiv(RSub(F_x(q, u, r, c + 1), F_x(q, u, r, c)), R(dx)))

\* qout[2:-2, :] -= (F_y[3:-2, :] - F_y[2:-3, :])/dy
MiddleY(q, v, dy, r, c) ==
    RNeg(RDiv(RSub(F_y(q, v, r + 1, c), F_y(q, v, r, c)), R(dy)))

\* a faulty BoundaryW: the upwind difference of q with the wrong sign
BoundaryW_sum(q, u, dx, r, c) ==
    LET u_w == ClipMax0(u[r][c])
    IN  RNeg(RAdd(RMul(RDiv(u_w, R(dx)), RAdd(q[r][c + 1], q[r][c])),
                  RMul(RDiv(q[r][c], R(dx)), RSub(u[r][c + 1], u[r][c]))))

\* qout[:, 0:2] -= (u_w/dx)*(q[:, 1:3] - q[:, 0:2]) + (q[:, 0:2]/dx)*(u[:, 1:3] - u[:, 0:2])
BoundaryW(q, u, dx, r, c) ==
    LET u_w == ClipMax0(u[r][c])
    IN  RNeg(RAdd(RMul(RDiv(u_w, R(dx)), RSub(q[r][c + 1], q[r][c])),
                  RMul(RDiv(q[r][c], R(dx)), RSub(u[r][c + 1], u[r][c]))))

\* qout[:, -2:] -= (u_e/dx)*(q[:, -2:] - q[:, -3:-1]) + (q[:, -2:]/dx)*(u[:, -2:] - u[:, -3:-1])
\* (u has one column more than q, so u[:, -2:] are the faces c+1 of the cells c)
BoundaryE(q, u, dx, r, c) ==
    LET u_e == ClipMin0(u[r][c + 1])
    IN  RNeg(RAdd(RMul(RDiv(u_e, R(dx)), RSub(q[r][c], q[r][c - 1])),
                  RMul(RDiv(q[r][c], R(dx)), RSub(u[r][c + 1], u[r][c]))))

\* qout[0:2, :] -= (v_s/dx)*(q[1:3, :] - q[0:2, :]) + (q[0:2, :]/dx)*(v[1:3, :] - v[0:2, :])
\* (the source divides the y boundary terms by dx)
BoundaryS(q, v, dx, r, c) ==
    LET v_s == ClipMax0(v[r][c])
    IN  RNeg(RAdd(RMul(RDiv(v_s, R(dx)), RSub(q[r + 1][c], q[r][c])),
                  RMul(RDiv(q[r][c], R(dx)), RSub(v[r + 1][c], v[r][c]))))

\* qout[-2:, :] -= (v_n/dx)*(q[-2:, :] - q[-3:-1, :]) + (q[-2:, :]/dx)*(v[-2:, :] - v[-3:-1, :])
BoundaryN(q, v, dx, r, c) ==
    LET v_n == ClipMin0(v[r + 1][c])
    IN  RNeg(RAdd(RMul(RDiv(v_n, R(dx)), RSub(q[r][c], q[r - 1][c])),
                  RMul(RDiv(q[r][c], R(dx)), RSub(v[r + 1][c], v[r][c]))))

\* the x-direction contribution to qout[r][c]
DerivX(q, u, dx, r, c) ==
    LET cols == NCols(q)
    IN  IF c <= 1 THEN BoundaryW(q, u, dx, r, c)
        ELSE IF c >= cols - 2 THEN BoundaryE(q, u, dx, r, c)
        ELSE MiddleX(q, u, dx, r, c)

\* the y-direction contribution to qout[r][c]
DerivY(q, v, dx, dy, r, c) ==
    LET rows == NRows(q)
    IN  IF r <= 1 THEN BoundaryS(q, v, dx, r, c)
        ELSE IF r >= rows - 2 THEN BoundaryN(q, v, dx, r, c)
        ELSE MiddleY(q, v, dy, r, c)

space_deriv_4(q, u, dx, v, dy) ==
    [r \in DOMAIN q |->
        [c \in DOMAIN q[0] |->
            RAdd(DerivX(q, u, dx, r, c), DerivY(q, v, dx, dy, r, c))]]

\* q + s*k, elementwise
Axpy(q, s, k) ==
    [r \in DOMAIN q |-> [c \in DOMAIN q[0] |-> RAdd(q[r][c], RMul(s, k[r][c]))]]

(***************************************************************************)
(* SpecAdvect: the inputs of one call, then space_deriv_4, then            *)
(* time_deriv_3.  The wind arrays have the staggered shapes the slices of  *)
(* space_deriv_4 require (u: one column more than q, v: one row more).     *)
(***************************************************************************)
MaxDim == 6

MaxVal == 2

Dims == 5..MaxDim

\* an array of whole numbers as an array of floating point values
Lift(g) == [r \in DOMAIN g |-> [c \in DOMAIN g[r] |-> R(g[r][c])]]

\* fields: uniform, ramps, and single-cell bumps in a corner, an edge and the middle
Fields(rows, cols) ==
    LET Rows == 0..(rows - 1)
        Cols == 0..(cols - 1)
    IN  {Lift([r \in Rows |-> [c \in Cols |-> a]]) : a \in (-1)..MaxVal}
        \cup {Lift([r \in Rows |-> [c \in Cols |-> r + 2 * c]]),
              Lift([r \in Rows |-> [c \in Cols |-> r * c - 3]])}
        \cup {Lift([r \in Rows |-> [c \in Cols |->
                      IF r = p[1] /\ c = p[2] THEN MaxVal ELSE 0]]) :
                 p \in {<<0, 0>>, <<1, 2>>, <<2, 2>>, <<rows - 1, cols - 1>>}}

\* winds: zero, uniform, sheared (u varies across x only with the row, v with the
\* column), and winds that vary from cell to cell along their own direction
WindKinds == {"zero", "uniform", "uniform_neg", "shear", "varying", "varying_v"}

\* u has one column more than q
WindU(kind, rows, cols) ==
    Lift([r \in 0..(rows - 1) |-> [j \in 0..cols |->
        CASE kind = "zero" -> 0
          [] kind = "uniform" -> 1
          [] kind = "uniform_neg" -> -MaxVal
          [] kind = "shear" -> r - 2
          [] kind = "varying" -> j - 2
          [] kind = "varying_v" -> 1]])

\* v has one row more than q
WindV(kind, rows, cols) ==
    Lift([i \in 0..rows |-> [c \in 0..(cols - 1) |->
        CASE kind = "zero" -> 0
          [] kind = "uniform" -> MaxVal
          [] kind = "uniform_neg" -> -1
          [] kind = "shear" -> 2 - c
          [] kind = "varying" -> 0
          [] kind = "varying_v" -> ((i * c) % 3) - 1]])

Spacings == {<<1, 1>>, <<1, 2>>, <<2, 1>>}

TimeSteps == {R(1), <<1, 2>>}

Idle == <<>>

AdvectIdle ==
    /\ adv_pc = "idle"
    /\ adv_q = Idle /\ adv_u = Idle /\ adv_v = Idle
    /\ adv_dt = Idle /\ adv_dx = Idle /\ adv_dy = Idle
    /\ adv_k = Idle /\ adv_qout = Idle

ParallaxIdle ==
    /\ par_pc = "idle"
    /\ par_in = Idle /\ par_shift = Idle /\ par_latlon = Idle
    /\ par_cells = Idle /\ par_flat = Idle

DriverIdle ==
    /\ pc = "idle" /\ error = "none"
    /\ cfg = Idle /\ time_index = 0 /\ sim_n = 0 /\ sensor_time = 0
    /\ U = Idle /\ V = Idle /\ T_steps = 0 /\ sim_dt = Idle /\ advection_number = 0
    /\ sim_q = Idle /\ noise = Idle /\ ensemble = Idle
    /\ analysis = <<>> /\ background = <<>> /\ advected = <<>>
    /\ flat_correct = 0 /\ this_flat_sensor_loc = Idle
    /\ point_assim = Idle

NearestIdle ==
    /\ near_pc = "idle"
    /\ near_array = Idle /\ near_values = Idle /\ near_idx = Idle /\ near_i = 0

AssimIdle ==
    /\ asm_pc = "idle"
    /\ asm_in = Idle /\ asm_eig = Idle /\ asm_W = Idle /\ asm_out = Idle

EnsembleIdle ==
    /\ ens_pc = "idle"
    /\ ens_in = Idle /\ ens_ensemble = Idle

NoiseIdle ==
    /\ nz_pc = "idle"
    /\ nz_in = Idle /\ nz_tick = 0
    /\ nz_init = Idle /\ nz_noise = Idle

LibIdle == NearestIdle /\ AssimIdle /\ EnsembleIdle /\ NoiseIdle

InitAdvect ==
    /\ LibIdle
    /\ ParallaxIdle
    /\ DriverIdle
    /\ adv_pc = "in"
    /\ \E rows \in Dims, cols \in Dims :
          /\ adv_q \in Fields(rows, cols)
          /\ \E kind \in WindKinds :
                /\ adv_u = WindU(kind, rows, cols)
                /\ adv_v = WindV(kind, rows, cols)
    /\ adv_dt \in TimeSteps
    /\ \E s \in Spacings : adv_dx = s[1] /\ adv_dy = s[2]
    /\ adv_k = Idle
    /\ adv_qout = Idle

\* line 14: k = space_deriv_4(q, u, dx, v, dy)
Stage1 ==
    /\ adv_pc = "in"
    /\ adv_k' = space_deriv_4(adv_q, adv_u, adv_dx, adv_v, adv_dy)
    /\ adv_pc' = "k1"
    /\ UNCHANGED <<adv_q, adv_u, adv_v, adv_dt, adv_dx, adv_dy, adv_qout>>
    /\ UNCHANGED <<parVars, drvVars>>
    /\ UNCHANGED libVars

\* line 15: k = space_deriv_4(q + dt/3*k, u, dx, v, dy)
Stage2 ==
    /\ adv_pc = "k1"
    /\ adv_k' = space_deriv_4(Axpy(adv_q, RDiv(adv_dt, R(3)), adv_k),
                              adv_u, adv_dx, adv_v, adv_dy)
    /\ adv_pc' = "k2"
    /\ UNCHANGED <<adv_q, adv_u, adv_v, adv_dt, adv_dx, adv_dy, adv_qout>>
    /\ UNCHANGED <<parVars, drvVars>>
    /\ UNCHANGED libVars

\* line 16: k = space_deriv_4(q + dt/2*k, u, dx, v, dy)
Stage3 ==
    /\ adv_pc = "k2"
    /\ adv_k' = space_deriv_4(Axpy(adv_q, RDiv(adv_dt, R(2)), adv_k),
                              adv_u, adv_dx, adv_v, adv_dy)
    /\ adv_pc' = "k3"
    /\ UNCHANGED <<adv_q, adv_u, adv_v, adv_dt, adv_dx, adv_dy, adv_qout>>
    /\ UNCHANGED <<parVars, drvVars>>
    /\ UNCHANGED libVars

\* lines 17-18: qout = q + dt*k; return qout
Advance ==
    /\ adv_pc = "k3"
    /\ adv_qout' = Axpy(adv_q, adv_dt, adv_k)
    /\ adv_pc' = "out"
    /\ UNCHANGED <<adv_q, adv_u, adv_v, adv_dt, adv_dx, adv_dy, adv_k>>
    /\ UNCHANGED <<parVars, drvVars>>
    /\ UNCHANGED libVars

NextAdvect == Stage1 \/ Stage2 \/ Stage3 \/ Advance

SpecAdvect == InitAdvect /\ [][NextAdvect]_vars

(***************************************************************************)
(* Properties of the advection operator (SpecAdvect)                       *)
(***************************************************************************)
AllZero(f) == \A r \in DOMAIN f : \A c \in DOMAIN f[r] : f[r][c] = Zero

IsUniform(f) == \A r \in DOMAIN f : \A c \in DOMAIN f[r] : f[r][c] = f[0][0]

\* u does not change along x within a row, v does not change along y within a column
WindConstantAlongFlow ==
    /\ \A r \in DOMAIN adv_u : \A j \in DOMAIN adv_u[r] : adv_u[r][j] = adv_u[r][0]
    /\ \A i \in DOMAIN adv_v : \A c \in DOMAIN adv_v[i] : adv_v[i][c] = adv_v[0][c]

\* every space_deriv_4 result so far is the zero field, and the returned field is q
Unchanged ==
    /\ adv_pc \in {"k1", "k2", "k3", "out"} => AllZero(adv_k)
    /\ adv_pc = "out" => adv_qout = adv_q

\* C7: with zero wind U = V = 0 (arrays of the staggered shapes), for every field
\* q on a grid with rows, cols >= 5 and every dt, dx, dy, space_deriv_4 returns
\* the all-zero field at each stage and time_deriv_3 returns q in every cell.
C7_ZeroWindIdentity ==
    (AllZero(adv_u) /\ AllZero(adv_v)) => Unchanged

C7_Witness ==
    /\ adv_pc = "out"
    /\ AllZero(adv_u) /\ AllZero(adv_v)
    /\ ~IsUniform(adv_q)
    /\ adv_dx # adv_dy
    /\ adv_qout = adv_q

\* C8 as stated: every uniform field is returned unchanged under every wind,
\* including winds that vary from cell to cell.
C8_UniformAnyWind ==
    IsUniform(adv_q) => Unchanged

\* C8 amended: every uniform field is returned unchanged under every wind whose
\* U component is constant along x and whose V component is constant along y
\* (the flux differences cancel only then).
C8_UniformConstantWind ==
    (IsUniform(adv_q) /\ WindConstantAlongFlow) => Unchanged

C8_Witness ==
    /\ adv_pc = "out"
    /\ IsUniform(adv_q) /\ adv_q[0][0] # Zero
    /\ WindConstantAlongFlow
    /\ ~AllZero(adv_u) /\ ~IsUniform(adv_u)
    /\ adv_qout = adv_q

(***************************************************************************)
(* Parallax geometry: parallax_shift, to_lat_lon, get_flat_correct,        *)
(* find_flat_loc.  Angles are whole degrees; np.sin / np.cos are tabulated *)
(* on the multiples of 30 and 45 degrees (irrational values to three       *)
(* decimals).  sin(0) is exactly 0 in floating point as in the table.      *)
(***************************************************************************)
\* metres per degree of latitude: 2*np.pi*a/360 with a = 6371000 (line 10),
\* rounded to the metre
MetersPerDegree == 111195

\* sin on the first quadrant
SinQ(d) ==
    CASE d = 0 -> Zero
      [] d = 30 -> <<1, 2>>
      [] d = 45 -> <<707, 1000>>
      [] d = 60 -> <<433, 500>>
      [] d = 90 -> R(1)

\* np.sin(d*2*np.pi/360)
SinDeg(d) ==
    LET m == d % 360
    IN  IF m <= 90 THEN SinQ(m)
        ELSE IF m <= 180 THEN SinQ(180 - m)
        ELSE IF m <= 270 THEN RNeg(SinQ(m - 180))
        ELSE RNeg(SinQ(360 - m))

\* np.cos(d*2*np.pi/360)
CosDeg(d) == SinDeg(d + 90)

\* cot(theta) = np.cos(theta)/np.sin(theta), theta = d degrees
cot(d) == RDiv(CosDeg(d), SinDeg(d))

\* parallax_shift: <<x_correction, y_correction>>
parallax_shift(cloud_height, satellite_azimuth, satellite_elevation, solar_azimuth, solar_elevation) ==
    LET satellite_displacement == RMul(R(cloud_height), cot(satellite_elevation))
        solar_displacement == RMul(R(cloud_height), cot(solar_elevation))
        x_correction ==
            RSub(RMul(solar_displacement, CosDeg(-90 - solar_azimuth)),
                 RMul(satellite_displacement, CosDeg(-90 - satellite_azimuth)))
        y_correction ==
            RSub(RMul(solar_displacement, SinDeg(-90 - solar_azimuth)),
                 RMul(satellite_displacement, SinDeg(-90 - satellite_azimuth)))
    IN  <<x_correction, y_correction>>

\* to_lat_lon: <<lat, lon>>, a displacement in metres to degrees
\*   lon = x*360/(2*np.pi*a*np.cos(loc_lat*2*np.pi/360));  lat = y*360/(2*np.pi*a)
to_lat_lon(x, y, loc_lat) ==
    LET lon == RDiv(RDiv(x, R(MetersPerDegree)), CosDeg(loc_lat))
        lat == RDiv(y, R(MetersPerDegree))
    IN  <<lat, lon>>

\* floor of a finite value
RFloor(x) == x[1] \div x[2]

\* int(np.round(x)) for a finite x: round half to even
RoundInt(x) ==
    LET f == RFloor(x)
        twice == RSub(RMul(R(2), x), R(2 * f))     \* 2*(x - f), in [0, 2)
    IN  IF twice = R(1) THEN (IF f % 2 = 0 THEN f ELSE f + 1)
        ELSE IF RLe(twice, R(1)) THEN f ELSE f + 1

\* line 458: flat_correct = west_east_correct + south_north_correct*domain_shape[0]
\* (domain_shape = <<n_rows, n_cols>>; Python's domain_shape[0] is n_rows)
flat_correct_of(west_east_correct, south_north_correct, domain_shape) ==
    west_east_correct + south_north_correct * domain_shape[1]

\* np.ravel_multi_index((row, col), dims=shape) of find_flat_loc: row-major
ravel_multi_index(row, col, shape) == row * shape[2] + col

(***************************************************************************)
(* SpecParallax: the arguments of one get_flat_correct call, then its      *)
(* three steps.  int() of a non-finite value raises (ValueError for nan,   *)
(* OverflowError for inf) and the call returns nothing.                    *)
(***************************************************************************)
MaxShapeDim == 6

CloudHeights == {0, 10000}

SatAzimuths == {180, 225}

SatElevations == {0, 45}

SolarAzimuths == {90, 135, 270}

SolarElevations == {0, 30, 45, 90}

Latitudes == {0, 60}

Steps == {<<1, 100>>, <<1, 50>>}

Shapes == (5..MaxShapeDim) \X (5..MaxShapeDim)

InitParallax ==
    /\ LibIdle
    /\ AdvectIdle
    /\ DriverIdle
    /\ par_pc = "in"
    /\ par_in \in
          [cloud_height : CloudHeights,
           sat_azimuth : SatAzimuths, sat_elevation : SatElevations,
           solar_azimuth : SolarAzimuths, solar_elevation : SolarElevations,
           latitude : Latitudes, lat_step : Steps, lon_step : {<<1, 100>>},
           domain_shape : Shapes, sensor : {<<0, 0>>, <<2, 3>>}]
    /\ par_shift = Idle /\ par_latlon = Idle /\ par_cells = Idle /\ par_flat = Idle

\* lines 449-453: x_correct, y_correct = parallax_shift(...)
ParallaxShift ==
    /\ par_pc = "in"
    /\ par_shift' = parallax_shift(par_in.cloud_height, par_in.sat_azimuth,
                                   par_in.sat_elevation, par_in.solar_azimuth,
                                   par_in.solar_elevation)
    /\ par_pc' = "shift"
    /\ UNCHANGED <<par_in, par_latlon, par_cells, par_flat>>
    /\ UNCHANGED <<advVars, drvVars>>
    /\ UNCHANGED libVars

\* lines 454-455: lat_correct, lon_correct = to_lat_lon(x_correct, y_correct, latitude)
ToLatLon ==
    /\ par_pc = "shift"
    /\ par_latlon' = to_lat_lon(par_shift[1], par_shift[2], par_in.latitude)
    /\ par_pc' = "latlon"
    /\ UNCHANGED <<par_in, par_shift, par_cells, par_flat>>
    /\ UNCHANGED <<advVars, drvVars>>
    /\ UNCHANGED libVars

\* lines 456-459: the cell counts and the flat offset
FlatCorrect ==
    /\ par_pc = "latlon"
    /\ LET lon_cells == RDiv(par_latlon[2], par_in.lon_step)
           lat_cells == RDiv(par_latlon[1], par_in.lat_step)
       IN  \/ /\ IsFinite(lon_cells) /\ IsFinite(lat_cells)
              /\ par_cells' = <<RoundInt(lon_cells), RoundInt(lat_cells)>>
              /\ par_flat' = flat_correct_of(RoundInt(lon_cells), RoundInt(lat_cells),
                                             par_in.domain_shape)
              /\ par_pc' = "flat"
           \/ /\ ~(IsFinite(lon_cells) /\ IsFinite(lat_cells))
              /\ par_pc' = "error"
              /\ UNCHANGED <<par_cells, par_flat>>
    /\ UNCHANGED <<par_in, par_shift, par_latlon>>
    /\ UNCHANGED <<advVars, drvVars>>
    /\ UNCHANGED libVars

NextParallax == ParallaxShift \/ ToLatLon \/ FlatCorrect

SpecParallax == InitParallax /\ [][NextParallax]_vars

(***************************************************************************)
(* Properties of the parallax geometry (SpecParallax)                      *)
(***************************************************************************)
\* C9: with cloud_height = 0, for every satellite and solar azimuth/elevation
\* (an elevation of 0 degrees included), parallax_shift returns (0, 0), the
\* conversion to cells succeeds and the flat-index offset is 0.
C9_ZeroHeightZeroShift ==
    par_in.cloud_height = 0 =>
        /\ par_pc \in {"shift", "latlon", "flat", "error"} => par_shift = <<Zero, Zero>>
        /\ par_pc # "error"
        /\ par_pc = "flat" => par_flat = 0

\* the sensor cell moved by the parallax cell counts
MovedSensor ==
    <<par_in.sensor[1] + par_cells[2], par_in.sensor[2] + par_cells[1]>>

InGrid(cell, shape) ==
    cell[1] \in 0..(shape[1] - 1) /\ cell[2] \in 0..(shape[2] - 1)

\* C10: for every grid shape (n_rows, n_cols), square or not, the flat offset is
\* west_east_cells + south_north_cells * n_cols, so adding it to the sensor's
\* flat index of find_flat_loc gives the flat index of the cell south_north_cells
\* rows and west_east_cells columns away.
C10_RowMajorOffset ==
    par_pc = "flat" =>
        /\ par_flat = par_cells[1] + par_cells[2] * par_in.domain_shape[2]
        /\ InGrid(MovedSensor, par_in.domain_shape) =>
              ravel_multi_index(par_in.sensor[1], par_in.sensor[2], par_in.domain_shape)
                  + par_flat
              = ravel_multi_index(MovedSensor[1], MovedSensor[2], par_in.domain_shape)

(***************************************************************************)
(* The driver simulation_parallax.  Time is counted in 5-minute ticks.     *)
(* Field contents are not computed here: the deterministic field, the      *)
(* noise mask and the ensemble's field rows carry the stage that produced  *)
(* them, and a trajectory entry records its tick and the stage it copies.  *)
(* The wind-bias rows of the ensemble are kept as numbers.                 *)
(***************************************************************************)
\* the names bound at module level in letkf_forecasting.py (imports, a, the defs)
ModuleGlobals ==
    {"np", "pd", "sp", "xr", "ndimage", "plt", "interpolate", "pv", "a",
     "time_deriv_3", "space_deriv_4", "cot", "parallax_shift", "forward_obs_mat",
     "to_nearest_indices", "to_lat_lon", "nearest_positions", "assimilate_parallax",
     "calc_sensor_error", "ensemble_creator", "assimilation_position_generator",
     "noise_fun", "advect_5min", "find_flat_loc", "get_flat_correct",
     "simulation_parallax", "test_parallax"}

\* int(np.ceil(x)) for a finite x >= 0
CeilInt(x) == (x[1] + x[2] - 1) \div x[2]

RECURSIVE MaxAbs(_)
\* abs(w).max() over the cells of a wind array
MaxAbs(w) ==
    IF Len(w) = 1 THEN Abs(w[1])
    ELSE LET rest == MaxAbs(Tail(w))
         IN  IF Abs(w[1]) >= rest THEN Abs(w[1]) ELSE rest

\* lines 500-502: T_steps = int(np.ceil((5*60)*(cx/dx+cy/dy)/C_max))
T_steps_of(u, v, dx, dy, C_max) ==
    LET cx == MaxAbs(u)
        cy == MaxAbs(v)
    IN  CeilInt(RDiv(RMul(R(5 * 60), RAdd(RDiv(R(cx), R(dx)), RDiv(R(cy), R(dy)))), C_max))

\* w + b: a wind array plus a member's scalar bias
Biased(w, b) == [i \in DOMAIN w |-> w[i] + b]

\* advect_5min, lines 416-423: the winds passed to time_deriv_3 in each sub-step,
\* for q, for noise, and for each member U + ensemble[0, i], V + ensemble[1, i]
advect_5min_calls(u, v, bias) ==
    {[target |-> "q", member |-> 0, u |-> u, v |-> v],
     [target |-> "noise", member |-> 0, u |-> u, v |-> v]}
    \cup {[target |-> "ensemble", member |-> i,
           u |-> Biased(u, bias[i][1]), v |-> Biased(v, bias[i][2])] : i \in DOMAIN bias}

\* the exception int() raises on a non-finite value
ConvError(x) == IF IsNaN(x) THEN "ValueError" ELSE "OverflowError"

\* get_flat_correct, lines 444-459: the offset, or the exception of int()
get_flat_correct(cloud_height, lat_step, lon_step, domain_shape, sat_azimuth, sat_elevation, latitude, solar_azimuth, solar_elevation) ==
    LET shift == parallax_shift(cloud_height, sat_azimuth, sat_elevation,
                                solar_azimuth, solar_elevation)
        ll == to_lat_lon(shift[1], shift[2], latitude)
        lon_cells == RDiv(ll[2], lon_step)
        lat_cells == RDiv(ll[1], lat_step)
    IN  IF ~IsFinite(lon_cells) THEN [raised |-> ConvError(lon_cells), value |-> 0]
        ELSE IF ~IsFinite(lat_cells) THEN [raised |-> ConvError(lat_cells), value |-> 0]
        ELSE [raised |-> "none",
              value |-> flat_correct_of(RoundInt(lon_cells), RoundInt(lat_cells),
                                        domain_shape)]

\* a Python argument that is either the object False or a number
PyFalse == [is_False |-> TRUE, number |-> 0]

PyNumber(n) == [is_False |-> FALSE, number |-> n]

\* assimilate_parallax, line 256: `if localization_length is False` selects the
\* LETKF without localization, anything else the localized LETKF
assimilate_mode(localization_length) ==
    IF localization_length.is_False THEN "global" ELSE "local"

\* a faulty point_localization_length: the call passes the configured length
point_localization_length_cfg == cfg.localization_length

\* lines 522-524: assimilate_parallax(ensemble, obs, rows, 1/sensor_sig**2, 1) passes
\* five arguments, so localization_length keeps its default False (line 215)
point_localization_length == PyFalse

\* a faulty ensemble_mean: the mean of the ensemble after the point assimilation
ensemble_mean_after_point(ens) == "point"

\* ensemble.mean(axis=1) as recorded in a trajectory: the mean of the ensemble as it
\* stands, identified by the last operation applied to its field rows
ensemble_mean(ens) == ens.field

\* ensemble[flat_sensor_indices, :], line 259: numpy accepts -size <= index < size
RowsInRange(rows, size) == \A i \in DOMAIN rows : -size <= rows[i] /\ rows[i] < size

(***************************************************************************)
(* Spec: the run of simulation_parallax                                    *)
(***************************************************************************)
MaxFrames == 2

MaxWind == 2

MaxBias == 1

EnsSize == 2

\* fine ticks between two frames 15 minutes apart (lines 469, 504-505)
FineTicksPerFrame == 3

RECURSIVE TimeRanges(_)
\* the frame times left by np.intersect1d: 15 or 30 minutes apart
TimeRanges(frames) ==
    IF frames = 1 THEN {<<0>>}
    ELSE {Append(tr, tr[Len(tr)] + g) :
            tr \in TimeRanges(frames - 1),
            g \in {FineTicksPerFrame, 2 * FineTicksPerFrame}}

\* the winds <<U, V>> a coarse tick may read: calm, and winds of growing speed
Winds ==
    {<<<<0, 0>>, <<0, 0>>>>}
    \cup {<<<<w, w - 1>>, <<1 - w, 0>>>> : w \in 1..MaxWind}

BiasPairs == {<<0, 0>>, <<-MaxBias, MaxBias>>}

BiasRows == [1..EnsSize -> BiasPairs]

Init ==
    /\ LibIdle
    /\ AdvectIdle
    /\ ParallaxIdle
    /\ \E frames \in 1..MaxFrames, spacing \in {<<1, 1>>, <<2, 1>>} :
         cfg \in [time_range : TimeRanges(frames),
                  dx : {spacing[1]}, dy : {spacing[2]},
                  C_max : {<<6, 5>>},
                  localization_length : {PyNumber(1)},
                  ens_size : {EnsSize}, wind_size : {2},
                  cloud_height : {0, 1000},
                  sat_azimuth : {180}, sat_elevation : {45},
                  latitude : {0}, lat_step : {<<1, 100>>}, lon_step : {<<1, 100>>},
                  domain_shape : {<<5, 5>>, <<5, 6>>},
                  flat_sensor_loc : {<<6, 12>>}]
    /\ pc = "loop" /\ error = "none"
    /\ time_index = 0 /\ sim_n = 0
    /\ sensor_time = cfg.time_range[1]
    /\ U = Idle /\ V = Idle /\ T_steps = 0 /\ sim_dt = Idle /\ advection_number = 0
    \* lines 486-494
    /\ \E bias \in BiasRows : ensemble = [bias |-> bias, field |-> "created"]
    /\ sim_q = [frame |-> 1, advections |-> 0]
    /\ noise = "template"
    /\ background = <<[t |-> cfg.time_range[1], of |-> "created"]>>
    /\ analysis = background
    /\ advected = <<[t |-> cfg.time_range[1], of |-> sim_q]>>
    /\ flat_correct = 0 /\ this_flat_sensor_loc = Idle
    /\ point_assim = Idle

\* lines 495-505: the head of a coarse tick
CoarseStart ==
    /\ pc = "loop"
    /\ time_index < Len(cfg.time_range) - 1
    /\ \E w \in Winds :
         LET steps == T_steps_of(w[1], w[2], cfg.dx, cfg.dy, cfg.C_max)
         IN  /\ U' = w[1] /\ V' = w[2]
             /\ T_steps' = steps
             /\ \/ /\ steps = 0              \* dt = (5*60)/0 raises
                   /\ pc' = "aborted" /\ error' = "ZeroDivisionError"
                   /\ UNCHANGED <<sim_dt, advection_number, sim_n>>
                \/ /\ steps # 0
                   /\ sim_dt' = RDiv(R(5 * 60), R(steps))
                   /\ advection_number' =
                        cfg.time_range[time_index + 2] - cfg.time_range[time_index + 1]
                   /\ sim_n' = 0
                   /\ pc' = "fine"
                   /\ UNCHANGED error
    /\ UNCHANGED <<cfg, time_index, sensor_time, sim_q, noise, ensemble, analysis,
                   background, advected, flat_correct, this_flat_sensor_loc,
                   point_assim>>
    /\ UNCHANGED <<advVars, parVars>>
    /\ UNCHANGED libVars

\* lines 506-515: a fine tick's advection, recorded into advected and background
FineAdvect ==
    /\ pc = "fine"
    /\ sim_n < advection_number
    /\ LET now == cfg.time_range[time_index + 1] + (sim_n + 1)
           q_adv == [sim_q EXCEPT !.advections = @ + 1]
           ens_adv == [ensemble EXCEPT !.field = "advected"]
       IN  /\ sensor_time' = now
           /\ sim_q' = q_adv
           /\ noise' = "advected"
           /\ ensemble' = ens_adv
           /\ advected' = Append(advected, [t |-> now, of |-> q_adv])
           /\ background' = Append(background, [t |-> now, of |-> ensemble_mean(ens_adv)])
    /\ pc' = "point"
    /\ UNCHANGED <<cfg, error, time_index, sim_n, U, V, T_steps, sim_dt, advection_number,
                   analysis, flat_correct, this_flat_sensor_loc, point_assim>>
    /\ UNCHANGED <<advVars, parVars>>
    /\ UNCHANGED libVars

\* lines 516-527: the parallax offset, the point assimilation, the analysis record
\* (the solar position is the collaborator's answer for sensor_time)
FinePoint ==
    /\ pc = "point"
    /\ \E solar_azimuth \in SolarAzimuths, solar_elevation \in SolarElevations :
       \E fc \in {get_flat_correct(cfg.cloud_height, cfg.lat_step, cfg.lon_step,
                                   cfg.domain_shape, cfg.sat_azimuth,
                                   cfg.sat_elevation, cfg.latitude,
                                   solar_azimuth, solar_elevation)} :
         LET locs == [i \in DOMAIN cfg.flat_sensor_loc |->
                         cfg.flat_sensor_loc[i] + fc.value]
             rows == [i \in DOMAIN locs |-> locs[i] + cfg.wind_size]
             size == cfg.wind_size + cfg.domain_shape[1] * cfg.domain_shape[2]
             call == [mode |-> assimilate_mode(point_localization_length), rows |-> rows]
         IN  \/ /\ fc.raised # "none"        \* int() of a non-finite value, lines 456-457
                /\ pc' = "aborted" /\ error' = fc.raised
                /\ UNCHANGED <<flat_correct, this_flat_sensor_loc, point_assim,
                               ensemble, analysis, sim_n>>
             \/ /\ fc.raised = "none"
                /\ ~RowsInRange(rows, size)  \* line 259 raises
                /\ flat_correct' = fc.value
                /\ this_flat_sensor_loc' = locs
                /\ point_assim' = call
                /\ pc' = "aborted" /\ error' = "IndexError"
                /\ UNCHANGED <<ensemble, analysis, sim_n>>
             \/ /\ fc.raised = "none"
                /\ RowsInRange(rows, size)
                /\ flat_correct' = fc.value
                /\ this_flat_sensor_loc' = locs
                /\ point_assim' = call
                \* the transform rewrites every row, the wind-bias rows too
                /\ \E bias \in BiasRows : ensemble' = [bias |-> bias, field |-> "point"]
                /\ analysis' =
                     IF sim_n # advection_number - 1
                     THEN Append(analysis,
                                 [t |-> sensor_time,
                                  of |-> ensemble_mean([ensemble EXCEPT !.field = "point"])])
                     ELSE analysis
                /\ sim_n' = sim_n + 1
                /\ pc' = "fine"
                /\ UNCHANGED error
    /\ UNCHANGED <<cfg, time_index, sensor_time, U, V, T_steps, sim_dt, advection_number,
                   sim_q, noise, background, advected>>
    /\ UNCHANGED <<advVars, parVars>>
    /\ UNCHANGED libVars

\* lines 529-548: the coarse boundary
CoarseBoundary ==
    /\ pc = "fine"
    /\ sim_n = advection_number
    \* lines 530-535: the new frame, the normalised mask, the blend
    /\ sim_q' = [frame |-> time_index + 2, advections |-> 0]
    /\ IF "assimilate" \in ModuleGlobals
       THEN \* lines 536-548
            /\ ensemble' = [ensemble EXCEPT !.field = "full"]
            /\ analysis' = Append(analysis,
                                   [t |-> sensor_time,
                                    of |-> ensemble_mean([ensemble EXCEPT !.field = "full"])])
            /\ noise' = "template"
            /\ time_index' = time_index + 1
            /\ pc' = "loop"
            /\ UNCHANGED error
       ELSE \* line 536: the name assimilate is not bound
            /\ ensemble' = [ensemble EXCEPT !.field = "blended"]
            /\ noise' = "normalized"
            /\ pc' = "aborted" /\ error' = "NameError"
            /\ UNCHANGED <<analysis, time_index>>
    /\ UNCHANGED <<cfg, sim_n, sensor_time, U, V, T_steps, sim_dt, advection_number,
                   background, advected, flat_correct, this_flat_sensor_loc,
                   point_assim>>
    /\ UNCHANGED <<advVars, parVars>>
    /\ UNCHANGED libVars

\* lines 549-552: the loop is exhausted, the trajectories are returned
Return ==
    /\ pc = "loop"
    /\ time_index = Len(cfg.time_range) - 1
    /\ pc' = "done"
    /\ UNCHANGED <<cfg, error, time_index, sim_n, sensor_time, U, V, T_steps, sim_dt,
                   advection_number, sim_q, noise, ensemble, analysis, background,
                   advected, flat_correct, this_flat_sensor_loc, point_assim>>
    /\ UNCHANGED <<advVars, parVars>>
    /\ UNCHANGED libVars

Next == CoarseStart \/ FineAdvect \/ FinePoint \/ CoarseBoundary \/ Return

Spec == Init /\ [][Next]_vars

(***************************************************************************)
(* Properties of the run of simulation_parallax (checked under Spec)       *)
(***************************************************************************)
\* the run has processed the coarse boundary of the tick it was in
BoundaryProcessed ==
    \/ pc = "done" /\ time_index > 0
    \/ pc = "loop" /\ time_index > 0
    \/ pc = "aborted" /\ error = "NameError"

\* fine 5-minute ticks elapsed so far
TicksElapsed == sensor_time - cfg.time_range[1]

\* dt*(max|u|/dx + max|v|/dy) of one call of time_deriv_3
Courant(call) ==
    RMul(sim_dt, RAdd(RDiv(R(MaxAbs(call.u)), R(cfg.dx)),
                      RDiv(R(MaxAbs(call.v)), R(cfg.dy))))

\* C1: a run over a time range of at least two frames processes every coarse tick
\* and returns; no coarse tick aborts the run at its full-field assimilation.
C1_RunReturns == ~(pc = "aborted" /\ error = "NameError")

\* C2: at the end of every coarse tick, and at run end, analysis, background and
\* advected each hold exactly 1 + (fine ticks elapsed) entries.
C2_EqualLengths ==
    BoundaryProcessed =>
        /\ Len(analysis) = 1 + TicksElapsed
        /\ Len(background) = 1 + TicksElapsed
        /\ Len(advected) = 1 + TicksElapsed

\* C3: once a coarse boundary is processed, the analysis entry of the boundary
\* tick is the mean after the full-field assimilation, never the mean after the
\* point assimilation of that tick.
C3_BoundarySlotIsFull ==
    BoundaryProcessed =>
        analysis[Len(analysis)] = [t |-> sensor_time, of |-> "full"]

\* C4 (as stated): every point assimilation runs the LETKF in localized mode.
C4_PointAssimLocal ==
    point_assim # Idle => point_assim.mode = "local"

\* C4 (amended): every point assimilation runs the LETKF without localization,
\* observing the rows flat_sensor_loc + flat_correct + wind_size, whatever
\* localization length is configured.
C4_PointAssimGlobal ==
    point_assim # Idle =>
        /\ point_assim.mode = "global"
        /\ point_assim.rows =
             [i \in DOMAIN cfg.flat_sensor_loc |->
                 cfg.flat_sensor_loc[i] + flat_correct + cfg.wind_size]

\* a point assimilation has run and transformed the ensemble, in a run whose
\* configuration carries a localization length
C4_Witness ==
    /\ point_assim # Idle
    /\ ~cfg.localization_length.is_False
    /\ ensemble.field = "point"
    /\ pc = "fine" /\ sim_n > 0

\* C5: the driver never uses T_steps = 0; a computed value below 1 is clamped to 1
\* and the run does not fail.
C5_TStepsClamped ==
    /\ pc = "aborted" => error # "ZeroDivisionError"
    /\ pc \in {"fine", "point"} => T_steps >= 1

\* C6: for every call of time_deriv_3 in a fine tick (q, noise, and each member
\* with its biased wind) the Courant number of the wind passed is <= C_max.
C6_CourantBelowCmax ==
    pc = "point" =>
        \A call \in advect_5min_calls(U, V, ensemble.bias) :
            RLe(Courant(call), cfg.C_max)

(***************************************************************************)
(* SpecNearest: to_nearest_indices.  Arrays are indexed from 0 as in the   *)
(* source; the coordinates are whole numbers, whose differences are exact  *)
(* in floating point.                                                      *)
(***************************************************************************)
MaxCoord == 4

MaxLen == 3

MaxQueries == 2

\* the arrays with indices 0..n-1 over a set of values
Arrays(n, S) == [0..(n - 1) -> S]

StrictlyIncreasing(arr) ==
    \A i \in DOMAIN arr : \A j \in DOMAIN arr : i < j => arr[i] < arr[j]

\* np.searchsorted(array, value, side="left") on a sorted array: the number of
\* elements below value
searchsorted_left(arr, value) == Cardinality({j \in DOMAIN arr : arr[j] < value})

\* a faulty closer: a tie counts as closer
closer_or_tied(x, y) == x <= y

\* lines 148-149: np.abs(values[i] - array[idx[i] - 1]) < np.abs(values[i] - array[idx[i]])
closer(x, y) == x < y

\* lines 147-150: the index kept for values[i], from the insertion point idx
nearest_of(arr, value, idx) ==
    IF idx > 0 /\ (idx = Cardinality(DOMAIN arr)
                   \/ closer(Abs(value - arr[idx - 1]), Abs(value - arr[idx])))
    THEN idx - 1
    ELSE idx

InitNearest ==
    /\ AdvectIdle /\ ParallaxIdle /\ DriverIdle
    /\ AssimIdle /\ EnsembleIdle /\ NoiseIdle
    /\ near_pc = "in"
    /\ \E n \in 1..MaxLen :
         /\ near_array \in Arrays(n, 0..MaxCoord)
         /\ StrictlyIncreasing(near_array)
    /\ \E k \in 1..MaxQueries : near_values \in Arrays(k, (-1)..(MaxCoord + 1))
    /\ near_idx = Idle
    /\ near_i = 0

\* line 145
Searchsorted ==
    /\ near_pc = "in"
    /\ near_idx' = [i \in DOMAIN near_values |->
                       searchsorted_left(near_array, near_values[i])]
    /\ near_i' = 0
    /\ near_pc' = "loop"
    /\ UNCHANGED <<near_array, near_values>>
    /\ UNCHANGED <<advVars, parVars, drvVars, asmVars, ensVars, nzVars>>

\* lines 146-150: one pass of the loop body
NearestStep ==
    /\ near_pc = "loop"
    /\ near_i < Cardinality(DOMAIN near_idx)
    /\ near_idx' = [near_idx EXCEPT
                      ![near_i] = nearest_of(near_array, near_values[near_i], @)]
    /\ near_i' = near_i + 1
    /\ UNCHANGED <<near_pc, near_array, near_values>>
    /\ UNCHANGED <<advVars, parVars, drvVars, asmVars, ensVars, nzVars>>

\* line 151
NearestReturn ==
    /\ near_pc = "loop"
    /\ near_i = Cardinality(DOMAIN near_idx)
    /\ near_pc' = "out"
    /\ UNCHANGED <<near_array, near_values, near_idx, near_i>>
    /\ UNCHANGED <<advVars, parVars, drvVars, asmVars, ensVars, nzVars>>

NextNearest == Searchsorted \/ NearestStep \/ NearestReturn

SpecNearest == InitNearest /\ [][NextNearest]_vars

(***************************************************************************)
(* Properties of to_nearest_indices (SpecNearest)                          *)
(***************************************************************************)
Dist(i, j) == Abs(near_values[i] - near_array[j])

\* the returned index is in range and its element is at minimal distance
NearestInRange ==
    \A i \in DOMAIN near_values :
        /\ near_idx[i] \in DOMAIN near_array
        /\ \A j \in DOMAIN near_array : Dist(i, near_idx[i]) <= Dist(i, j)

\* C11 as stated: the returned index is in [0, len(array)-1], its element is at
\* minimal distance from the value, and of two equidistant elements the lower
\* index is returned.
C11_NearestTiesLower ==
    near_pc = "out" =>
        /\ NearestInRange
        /\ \A i \in DOMAIN near_values : \A j \in DOMAIN near_array :
               Dist(i, j) = Dist(i, near_idx[i]) => near_idx[i] <= j

\* C11 amended: the returned index is in [0, len(array)-1], its element is at
\* minimal distance from the value, and of two equidistant elements the higher
\* index is returned.
C11_NearestTiesUpper ==
    near_pc = "out" =>
        /\ NearestInRange
        /\ \A i \in DOMAIN near_values : \A j \in DOMAIN near_array :
               Dist(i, j) = Dist(i, near_idx[i]) => j <= near_idx[i]

\* a call has returned for a value that lies half way between two elements, and
\* for a value outside the array
C11_Witness ==
    /\ near_pc = "out"
    /\ \E i \in DOMAIN near_values : \E j \in DOMAIN near_array :
           j # near_idx[i] /\ Dist(i, j) = Dist(i, near_idx[i])
    /\ \E i \in DOMAIN near_values :
           near_values[i] > near_array[Cardinality(DOMAIN near_array) - 1]

(***************************************************************************)
(* SpecAssim: assimilate_parallax, both branches.  Arrays are indexed from *)
(* 0.  An ensemble is ensemble[row][member].  np.linalg.eigh is modelled   *)
(* for ensembles of one and two members: every row of the perturbations    *)
(* sums to zero, so the matrix passed to eigh is [[p]] or [[p, q], [q, p]],*)
(* with eigenvalues p + q, p - q and eigenvectors (1, 1)/sqrt(2),          *)
(* (1, -1)/sqrt(2).  An eigenvector v enters lines 269-275 only through    *)
(* v v^T, which is what eig_vector holds here.  np.sqrt is exact on        *)
(* squares and rounded down to two decimals elsewhere.                     *)
(***************************************************************************)
MaxSpread == 2

RECURSIVE ISqrt(_)
\* the integer part of the square root of n >= 0
ISqrt(n) ==
    IF n < 2 THEN n
    ELSE LET r == 2 * ISqrt(n \div 4)
         IN  IF (r + 1) * (r + 1) <= n THEN r + 1 ELSE r

\* np.sqrt: nan for a negative value (and for nan), inf for inf
RSqrt(x) ==
    IF x[2] = 0 THEN (IF x[1] > 0 THEN Inf ELSE NaN)
    ELSE IF x[1] < 0 THEN NaN
    ELSE IF ISqrt(x[1]) * ISqrt(x[1]) = x[1] /\ ISqrt(x[2]) * ISqrt(x[2]) = x[2]
         THEN <<ISqrt(x[1]), ISqrt(x[2])>>
    ELSE Norm(ISqrt(x[1] * x[2] * 10000), x[2] * 100)

RECURSIVE RSum(_, _)
\* the sum of f over the index set S
RSum(f, S) ==
    IF S = {} THEN Zero
    ELSE LET i == CHOOSE j \in S : TRUE
         IN  RAdd(f[i], RSum(f, S \ {i}))

Members(k) == 0..(k - 1)

\* row.mean() of one row of an ensemble of k members
RowMean(row, k) == RDiv(RSum(row, Members(k)), R(k))

\* x.mean(axis=1) and x - x_bar[:, None]
MeanOf(ens, k) == [r \in DOMAIN ens |-> RowMean(ens[r], k)]

PerturbationsOf(ens, k) ==
    [r \in DOMAIN ens |-> [m \in Members(k) |-> RSub(ens[r][m], RowMean(ens[r], k))]]

\* lines 265-268 and 309-312: (ens_size-1)*np.eye(ens_size)/inflation + C.dot(Y),
\* with C = Y.T*R_inverse
transform_matrix(Y, R_inverse, inflation, k) ==
    [i \in Members(k) |-> [j \in Members(k) |->
        RAdd(IF i = j THEN RDiv(R(k - 1), inflation) ELSE Zero,
             RSum([r \in DOMAIN Y |-> RMul(RMul(Y[r][i], R_inverse), Y[r][j])],
                  DOMAIN Y))]]

\* v v^T for v = (1) and for v = (1, 1)/sqrt(2), (1, -1)/sqrt(2)
Projector(k, sign) ==
    [i \in Members(k) |-> [j \in Members(k) |->
        IF k = 1 THEN R(1)
        ELSE IF i = j THEN <<1, 2>> ELSE <<sign, 2>>]]

\* np.linalg.eigh of [[p]] or [[p, q], [q, p]]: it returns for every symmetric
\* matrix and raises for no eigenvalue
eigh(M, k) ==
    IF k = 1
    THEN <<[value |-> M[0][0], vvT |-> Projector(1, 1)]>>
    ELSE <<[value |-> RSub(M[0][0], M[0][1]), vvT |-> Projector(2, -1)],
           [value |-> RAdd(M[0][0], M[0][1]), vvT |-> Projector(2, 1)]>>

\* lines 269-275 and 313-320: eig_vector with column i scaled by coef[i], times
\* eig_vector.T, i.e. the sum over the eigenvalues of coef * v v^T
Spectral(eig, k, coef) ==
    [i \in Members(k) |-> [j \in Members(k) |->
        RSum([e \in DOMAIN eig |-> RMul(coef[e], eig[e].vvT[i][j])], DOMAIN eig)]]

\* lines 269-281 and 313-326: P_tilde, W_a, w_a_bar and W_a + w_a_bar[:, None];
\* 1/num and 1/np.sqrt(num) are numpy divisions: they give inf or nan, no exception
letkf_weights(Y, R_inverse, inflation, innovation, k) ==
    LET eig == eigh(transform_matrix(Y, R_inverse, inflation, k), k)
        P_tilde == Spectral(eig, k, [e \in DOMAIN eig |-> RInv(eig[e].value)])
        W_a0 == Spectral(eig, k, [e \in DOMAIN eig |-> RInv(RSqrt(eig[e].value))])
        W_a == [i \in Members(k) |-> [j \in Members(k) |->
                   RMul(W_a0[i][j], RSqrt(R(k - 1)))]]
        Cd == [i \in Members(k) |->
                  RSum([r \in DOMAIN Y |->
                           RMul(RMul(Y[r][i], R_inverse), innovation[r])], DOMAIN Y)]
        w_a_bar == [i \in Members(k) |->
                       RSum([j \in Members(k) |-> RMul(P_tilde[i][j], Cd[j])],
                            Members(k))]
    IN  [eig_value |-> [e \in DOMAIN eig |-> eig[e].value],
         W_a |-> [i \in Members(k) |-> [j \in Members(k) |->
                     RAdd(W_a[i][j], w_a_bar[i])]]]

\* lines 282 and 334-335: x_bar[:, None] + X.dot(W) for one row
apply_weights(x_bar_r, X_r, W, k) ==
    [j \in Members(k) |->
        RAdd(x_bar_r, RSum([i \in Members(k) |-> RMul(X_r[i], W[i][j])], Members(k)))]

\* nearest_positions, lines 198-210: the flat indices within dist rows and columns
nearest_positions(loc, shape, dist) ==
    LET row == loc \div shape[2]
        col == loc % shape[2]
        row_min == IF row - dist < 0 THEN 0 ELSE row - dist
        row_max == IF row + dist > shape[1] - 1 THEN shape[1] - 1 ELSE row + dist
        col_min == IF col - dist < 0 THEN 0 ELSE col - dist
        col_max == IF col + dist > shape[2] - 1 THEN shape[2] - 1 ELSE col + dist
    IN  {ravel_multi_index(r, c, shape) : r \in row_min..row_max, c \in col_min..col_max}

\* the restriction of an array to the rows of an index set
TakeRows(x, S) == [r \in S |-> x[r]]

\* ensembles of n rows and k members: row r, member m holds r*tilt + m*spread
EnsembleOf(n, k, tilt, spread) ==
    [r \in 0..(n - 1) |-> [m \in Members(k) |-> R(r * tilt + m * spread)]]

InitAssim ==
    /\ AdvectIdle /\ ParallaxIdle /\ DriverIdle
    /\ NearestIdle /\ EnsembleIdle /\ NoiseIdle
    /\ asm_pc = "in"
    /\ \E k \in 1..2, tilt \in 0..1, spread \in 0..MaxSpread, o \in 0..1 :
         \/ asm_in \in
              [mode : {"global"}, ens_size : {k},
               ensemble : {EnsembleOf(2, k, tilt, spread)},
               observations : {[r \in 0..0 |-> R(o)], [r \in 0..1 |-> R(o)]},
               flat_sensor_indices : {{0}, {0, 1}},
               R_inverse : {R(1), <<-1, 2>>},
               inflation : {R(1), R(-1)},
               domain_shape : {<<1, 2>>},
               localization_length : {PyFalse},
               assimilation_positions : {<<>>}]
         \/ asm_in \in
              [mode : {"local"}, ens_size : {k},
               ensemble : {EnsembleOf(4, k, tilt, spread)},
               observations : {[r \in 0..3 |-> R(o)]},
               flat_sensor_indices : {{}},
               R_inverse : {R(1), <<-1, 2>>},
               inflation : {R(1), R(-1)},
               domain_shape : {<<2, 2>>},
               localization_length : {PyNumber(1)},
               assimilation_positions : {<<0, 1, 2, 3>>}]
    /\ asm_in.mode = assimilate_mode(asm_in.localization_length)
    /\ asm_in.mode = "global" =>
          Cardinality(asm_in.flat_sensor_indices) = Cardinality(DOMAIN asm_in.observations)
    /\ asm_eig = <<>> /\ asm_W = <<>> /\ asm_out = Idle

\* lines 259-281: the weights of the branch without localization
GlobalWeights ==
    /\ asm_pc = "in"
    /\ asm_in.mode = "global"
    /\ LET k == asm_in.ens_size
           idx == asm_in.flat_sensor_indices
           Y_b == PerturbationsOf(TakeRows(asm_in.ensemble, idx), k)
           y_b_bar == MeanOf(TakeRows(asm_in.ensemble, idx), k)
           \* observations[n] belongs to the n-th smallest sensor index
           obs == [r \in idx |-> asm_in.observations[Cardinality({s \in idx : s < r})]]
           innovation == [r \in idx |-> RSub(obs[r], y_b_bar[r])]
       IN  \E w \in {letkf_weights(Y_b, asm_in.R_inverse, asm_in.inflation,
                                   innovation, k)} :
              /\ asm_eig' = <<w.eig_value>>
              /\ asm_W' = <<w.W_a>>
    /\ asm_pc' = "weights"
    /\ UNCHANGED <<asm_in, asm_out>>
    /\ UNCHANGED <<advVars, parVars, drvVars, nearVars, ensVars, nzVars>>

\* lines 282-284: the analysis ensemble is returned
GlobalUpdate ==
    /\ asm_pc = "weights"
    /\ LET k == asm_in.ens_size
           x_bar == MeanOf(asm_in.ensemble, k)
           X == PerturbationsOf(asm_in.ensemble, k)
       IN  asm_out' = [r \in DOMAIN asm_in.ensemble |->
                          apply_weights(x_bar[r], X[r], asm_W[1], k)]
    /\ asm_pc' = "out"
    /\ UNCHANGED <<asm_in, asm_eig, asm_W>>
    /\ UNCHANGED <<advVars, parVars, drvVars, nearVars, ensVars, nzVars>>

\* lines 302-328: the weights at the next assimilation position
LocalWeights ==
    /\ asm_pc = "in"
    /\ asm_in.mode = "local"
    /\ Len(asm_W) < Len(asm_in.assimilation_positions)
    /\ LET k == asm_in.ens_size
           interp_position == asm_in.assimilation_positions[Len(asm_W) + 1]
           local_positions == nearest_positions(interp_position, asm_in.domain_shape,
                                                asm_in.localization_length.number)
           local_ensemble == TakeRows(PerturbationsOf(asm_in.ensemble, k), local_positions)
           local_x_bar == TakeRows(MeanOf(asm_in.ensemble, k), local_positions)
           innovation == [r \in local_positions |->
                             RSub(asm_in.observations[r], local_x_bar[r])]
       IN  \E w \in {letkf_weights(local_ensemble, asm_in.R_inverse, asm_in.inflation,
                                   innovation, k)} :
              /\ asm_eig' = Append(asm_eig, w.eig_value)
              /\ asm_W' = Append(asm_W, w.W_a)
    /\ UNCHANGED <<asm_pc, asm_in, asm_out>>
    /\ UNCHANGED <<advVars, parVars, drvVars, nearVars, ensVars, nzVars>>

\* lines 330-338: the weights are interpolated to every cell (a cell that is an
\* assimilation position gets its own weights) and the analysis ensemble is returned
LocalApply ==
    /\ asm_pc = "in"
    /\ asm_in.mode = "local"
    /\ Len(asm_W) = Len(asm_in.assimilation_positions)
    /\ LET k == asm_in.ens_size
           x_bar == MeanOf(asm_in.ensemble, k)
           X == PerturbationsOf(asm_in.ensemble, k)
           W_fine_mesh == [r \in DOMAIN asm_in.ensemble |->
                              asm_W[CHOOSE n \in DOMAIN asm_W :
                                       asm_in.assimilation_positions[n] = r]]
       IN  asm_out' = [r \in DOMAIN asm_in.ensemble |->
                          apply_weights(x_bar[r], X[r], W_fine_mesh[r], k)]
    /\ asm_pc' = "out"
    /\ UNCHANGED <<asm_in, asm_eig, asm_W>>
    /\ UNCHANGED <<advVars, parVars, drvVars, nearVars, ensVars, nzVars>>

NextAssim == GlobalWeights \/ GlobalUpdate \/ LocalWeights \/ LocalApply

SpecAssim == InitAssim /\ [][NextAssim]_vars

(***************************************************************************)
(* Properties of assimilate_parallax (SpecAssim)                           *)
(***************************************************************************)
Positive(x) == IsFinite(x) /\ x[1] > 0

AllFinite(ens) == \A r \in DOMAIN ens : \A m \in DOMAIN ens[r] : IsFinite(ens[r][m])

\* C12: in both branches an analysis ensemble is returned only when every
\* eigenvalue of the transform matrix is > 0; an eigenvalue <= 0 ends the call
\* in an error.
C12_ReturnsOnlyPositiveDefinite ==
    asm_pc = "out" =>
        \A n \in DOMAIN asm_eig : \A e \in DOMAIN asm_eig[n] : Positive(asm_eig[n][e])

(***************************************************************************)
(* SpecEnsemble: ensemble_creator.  The local ensemble is the sequence of  *)
(* its rows (row r of the source is element r + 1); a row records what it  *)
(* was built from and its value for each member.  np.random.normal is a    *)
(* choice from a few values.                                               *)
(***************************************************************************)
MaxWindSize == 2

MaxCells == 2

\* what np.random.normal may return
Draws == {R(-1), R(1)}

\* what np.random.normal returns for CI_pert
CIDraws == {Zero, <<1, 2>>}

\* line 353: half_wind = int(round(wind_size/2)), round half to even
half_wind_of(wind_size) == RoundInt(<<wind_size, 2>>)

\* np.random.normal(size=n*k).reshape(n, k): n rows of k draws
NormalRows(n, k) ==
    [1..n -> [kind : {"wind"}, values : [Members(k) -> Draws]]]

\* line 366: np.repeat(sat_image.ravel()[:, None], ens_size, axis=1)
RepeatRows(image, k) ==
    [c \in DOMAIN image |-> [kind |-> "field", values |-> [m \in Members(k) |-> image[c]]]]

\* lines 368-369 for the rows from wind_size on (ensemble[wind_size:] is empty when
\* wind_size exceeds the number of rows)
PerturbFrom(ens, wind_size, CI_pert) ==
    [r \in DOMAIN ens |->
        IF r - 1 >= wind_size
        THEN [ens[r] EXCEPT !.values =
                 [m \in DOMAIN @ |->
                     RAdd(RMul(RSub(R(1), CI_pert[m]), @[m]), CI_pert[m])]]
        ELSE ens[r]]

InitEnsemble ==
    /\ AdvectIdle /\ ParallaxIdle /\ DriverIdle
    /\ NearestIdle /\ AssimIdle /\ NoiseIdle
    /\ ens_pc = "in"
    /\ \E cells \in 1..MaxCells :
         ens_in \in [wind_size : 1..MaxWindSize,
                     ens_size : 1..2,
                     sat_image : [1..cells -> {R(0), R(1)}]]
    /\ ens_ensemble = <<>>

\* lines 353-358: the rows drawn with wind_sigma[0]
WindRowsFirst ==
    /\ ens_pc = "in"
    /\ ens_ensemble' \in NormalRows(half_wind_of(ens_in.wind_size), ens_in.ens_size)
    /\ ens_pc' = "first"
    /\ UNCHANGED ens_in
    /\ UNCHANGED <<advVars, parVars, drvVars, nearVars, asmVars, nzVars>>

\* lines 359-363: the rows drawn with wind_sigma[1] are appended
WindRowsSecond ==
    /\ ens_pc = "first"
    /\ \E rows \in NormalRows(half_wind_of(ens_in.wind_size), ens_in.ens_size) :
          ens_ensemble' = ens_ensemble \o rows
    /\ ens_pc' = "second"
    /\ UNCHANGED ens_in
    /\ UNCHANGED <<advVars, parVars, drvVars, nearVars, asmVars, nzVars>>

\* lines 364-366: the repeated image is appended
FieldRows ==
    /\ ens_pc = "second"
    /\ ens_ensemble' = ens_ensemble \o RepeatRows(ens_in.sat_image, ens_in.ens_size)
    /\ ens_pc' = "field"
    /\ UNCHANGED ens_in
    /\ UNCHANGED <<advVars, parVars, drvVars, nearVars, asmVars, nzVars>>

\* lines 367-370: the rows from wind_size on are perturbed, the ensemble is returned
PerturbAndReturn ==
    /\ ens_pc = "field"
    /\ \E CI_pert \in [Members(ens_in.ens_size) -> CIDraws] :
          ens_ensemble' = PerturbFrom(ens_ensemble, ens_in.wind_size, CI_pert)
    /\ ens_pc' = "out"
    /\ UNCHANGED ens_in
    /\ UNCHANGED <<advVars, parVars, drvVars, nearVars, asmVars, nzVars>>

NextEnsemble == WindRowsFirst \/ WindRowsSecond \/ FieldRows \/ PerturbAndReturn

SpecEnsemble == InitEnsemble /\ [][NextEnsemble]_vars

(***************************************************************************)
(* Properties of ensemble_creator (SpecEnsemble)                           *)
(***************************************************************************)
\* C13: for wind_size 1 or 2, the returned matrix has wind_size + domain_size
\* rows and ens_size columns; rows [0, wind_size) are wind-bias rows and rows
\* [wind_size, end) are the members' fields.
C13_EnsembleShape ==
    (ens_pc = "out" /\ ens_in.wind_size \in {1, 2}) =>
        /\ Len(ens_ensemble) = ens_in.wind_size + Len(ens_in.sat_image)
        /\ \A r \in DOMAIN ens_ensemble :
              /\ DOMAIN ens_ensemble[r].values = Members(ens_in.ens_size)
              /\ ens_ensemble[r].kind = IF r - 1 < ens_in.wind_size THEN "wind" ELSE "field"

(***************************************************************************)
(* The boundary rows of space_deriv_4 (SpecAdvect)                         *)
(***************************************************************************)
\* the operator with each direction's own spacing in interior and boundary cells
reference_space_deriv(q, u, dx, v, dy) ==
    [r \in DOMAIN q |->
        [c \in DOMAIN q[0] |->
            RAdd(DerivX(q, u, dx, r, c), DerivY(q, v, dy, dy, r, c))]]

\* C14: for every dx and dy, dx # dy included, space_deriv_4 equals the operator
\* whose y-direction boundary term in the two outermost rows at the south and
\* north edges is divided by dy (and whose x-direction boundary term by dx).
C14_BoundaryUsesOwnSpacing ==
    adv_pc = "k1" =>
        adv_k = reference_space_deriv(adv_q, adv_u, adv_dx, adv_v, adv_dy)

(***************************************************************************)
(* The order of a fine tick (Spec)                                         *)
(***************************************************************************)
\* C15 as stated: the background entry recorded for a fine tick is the ensemble
\* mean after that tick's point assimilation.
C15_BackgroundAfterPoint ==
    \A i \in 2..Len(background) : background[i].of = "point"

\* C15 amended: within a fine tick the order is advection, recording of the
\* advected field and of the background, parallax offset, point assimilation,
\* recording of the analysis; the background entry of a fine tick is the ensemble
\* mean after the advection and before the point assimilation of that tick, the
\* analysis entry the mean after it.
C15_BackgroundBeforePoint ==
    /\ \A i \in 2..Len(background) : background[i].of = "advected"
    /\ \A i \in 2..Len(analysis) : analysis[i].of \in {"point", "full"}
    /\ pc = "point" =>
          /\ ensemble.field = "advected"
          /\ Len(background) = 1 + TicksElapsed
          /\ Len(advected) = 1 + TicksElapsed
          /\ background[Len(background)].t = sensor_time
          /\ \A i \in DOMAIN analysis : analysis[i].t < sensor_time
    /\ (pc = "fine" /\ sim_n > 0 /\ sim_n < advection_number) =>
          /\ ensemble.field = "point"
          /\ background[Len(background)] = [t |-> sensor_time, of |-> "advected"]
          /\ analysis[Len(analysis)] = [t |-> sensor_time, of |-> "point"]

\* two fine ticks have been completed: the point assimilation of the second has
\* run, after its background entry was recorded
C15_Witness ==
    /\ pc = "fine" /\ sim_n = 2 /\ sim_n < advection_number
    /\ ensemble.field = "point"
    /\ point_assim # Idle
    /\ Len(background) = 3 /\ Len(analysis) = 3

(***************************************************************************)
(* SpecNoise: the noise mask of one coarse interval of simulation_parallax *)
(* (lines 477, 491, 511-512 with advect_5min line 418, and 531-532).       *)
(***************************************************************************)

\* noise_fun, lines 403-406: width of the border set to 1
NoiseBorder == 25

\* noise_fun, lines 402-406: zeros with the four border strips set to 1
\* (a slice 0:25 or -25: of a shorter axis covers the whole axis)
border_mask(shape) ==
    [r \in 0..(shape[1] - 1) |-> [c \in 0..(shape[2] - 1) |->
        IF \/ r < NoiseBorder \/ r >= shape[1] - NoiseBorder
           \/ c < NoiseBorder \/ c >= shape[2] - NoiseBorder
        THEN R(1) ELSE Zero]]

CellsOf(a) == {a[r][c] : r \in DOMAIN a, c \in DOMAIN a[0]}

\* noise_fun, line 407: sp.ndimage.gaussian_filter(noise_init, 12).  The
\* kernel is normalised and the boundary is reflected, so every cell of a
\* constant array gets the same weighted sum of the same value: the array is
\* returned unchanged.  Every grid of the model is narrower than twice the
\* border, so border_mask is constant and only that case is evaluated.
gaussian_filter(a) ==
    IF Cardinality(CellsOf(a)) = 1 THEN a
    ELSE [r \in DOMAIN a |-> [c \in DOMAIN a[0] |-> NaN]]

\* noise_fun, lines 401-408
noise_fun(domain_shape) == gaussian_filter(border_mask(domain_shape))

\* noise.min(), noise.max() of an array of finite values
ArrayMin(a) == CHOOSE x \in CellsOf(a) : \A y \in CellsOf(a) : RLe(x, y)

ArrayMax(a) == CHOOSE x \in CellsOf(a) : \A y \in CellsOf(a) : RLe(y, x)

\* line 531: noise - noise.min()
shift_to_zero(a) ==
    LET lo == ArrayMin(a)
    IN  [r \in DOMAIN a |-> [c \in DOMAIN a[0] |-> RSub(a[r][c], lo)]]

\* line 532: noise/noise.max()
scale_by_max(a) ==
    LET hi == ArrayMax(a)
    IN  [r \in DOMAIN a |-> [c \in DOMAIN a[0] |-> RDiv(a[r][c], hi)]]

\* lines 504-505: advection_number, the 5-minute steps of the interval.  A
\* wind that varies over the grid is advected once, so that the exact
\* arithmetic of the mask stays within the integers of the checker.
AdvectionNumbers(kind) ==
    IF kind \in {"zero", "uniform", "uniform_neg"}
    THEN {1, FineTicksPerFrame} ELSE {1}

\* lines 476-477, 491, 498-505: the template, its copy and the interval's wind
InitNoise ==
    /\ AdvectIdle /\ ParallaxIdle /\ DriverIdle
    /\ NearestIdle /\ AssimIdle /\ EnsembleIdle
    /\ \E shape \in Shapes, kind \in WindKinds,
          dt \in TimeSteps, sp \in Spacings :
          /\ \E n \in AdvectionNumbers(kind) :
                nz_in = [domain_shape |-> shape, advection_number |-> n,
                         U |-> WindU(kind, shape[1], shape[2]),
                         V |-> WindV(kind, shape[1], shape[2]),
                         dt |-> dt, dx |-> sp[1], dy |-> sp[2]]
          /\ nz_init = noise_fun(shape)
          /\ nz_noise = noise_fun(shape)
    /\ nz_tick = 0
    /\ nz_pc = "fine"

\* lines 506-512 with advect_5min line 418: one advection of the mask by the
\* unperturbed wind, noise = time_deriv_3(noise, dt, U, dx, V, dy) with the
\* three stages of lines 14-17
NoiseAdvect ==
    /\ nz_pc = "fine"
    /\ nz_tick < nz_in.advection_number
    /\ \E k1 \in {space_deriv_4(nz_noise, nz_in.U, nz_in.dx, nz_in.V, nz_in.dy)} :
       \E k2 \in {space_deriv_4(Axpy(nz_noise, RDiv(nz_in.dt, R(3)), k1),
                                nz_in.U, nz_in.dx, nz_in.V, nz_in.dy)} :
       \E k3 \in {space_deriv_4(Axpy(nz_noise, RDiv(nz_in.dt, R(2)), k2),
                                nz_in.U, nz_in.dx, nz_in.V, nz_in.dy)} :
          nz_noise' = Axpy(nz_noise, nz_in.dt, k3)
    /\ nz_tick' = nz_tick + 1
    /\ UNCHANGED <<nz_pc, nz_in, nz_init>>
    /\ UNCHANGED <<advVars, parVars, drvVars, nearVars, asmVars, ensVars>>

\* line 531: noise = (noise - noise.min())
NoiseShift ==
    /\ nz_pc = "fine"
    /\ nz_tick = nz_in.advection_number
    /\ nz_noise' = shift_to_zero(nz_noise)
    /\ nz_pc' = "shifted"
    /\ UNCHANGED <<nz_in, nz_tick, nz_init>>
    /\ UNCHANGED <<advVars, parVars, drvVars, nearVars, asmVars, ensVars>>

\* line 532: noise = noise/noise.max()
NoiseScale ==
    /\ nz_pc = "shifted"
    /\ nz_noise' = scale_by_max(nz_noise)
    /\ nz_pc' = "normalized"
    /\ UNCHANGED <<nz_in, nz_tick, nz_init>>
    /\ UNCHANGED <<advVars, parVars, drvVars, nearVars, asmVars, ensVars>>

NextNoise == NoiseAdvect \/ NoiseShift \/ NoiseScale

SpecNoise == InitNoise /\ [][NextNoise]_vars

InUnitInterval(x) == RLe(Zero, x) /\ RLe(x, R(1))

\* C16: at a coarse boundary the normalised noise mask has every cell in
\* [0, 1], also when the advected mask is constant, and the mask an interval
\* starts from equals the template noise_init.
C16_MaskNormalised ==
    /\ nz_pc = "normalized" => \A x \in CellsOf(nz_noise) : InUnitInterval(x)
    /\ (nz_pc = "fine" /\ nz_tick = 0) => nz_noise = nz_init

DomainSize == cfg.domain_shape[1] * cfg.domain_shape[2]

\* C17: in every fine tick every parallax-corrected flat index
\* flat_sensor_loc[i] + flat_correct lies in [0, domain_size), so the ensemble
\* row the point assimilation observes (index + wind_size) is a scalar-field
\* row, never a wind-bias row or a row reached by a negative index.
C17_CorrectedIndexInDomain ==
    this_flat_sensor_loc # Idle =>
        \A i \in DOMAIN this_flat_sensor_loc :
            /\ this_flat_sensor_loc[i] \in 0..(DomainSize - 1)
            /\ point_assim.rows[i] \in
                   cfg.wind_size..(cfg.wind_size + DomainSize - 1)

=============================================================================
